---- MODULE Spec2Model ----
(***************************************************************************)
(* jakkserv (main.go): a small HTTP server with four routes, /ip, /notify, *)
(* /puturl and /geturl, a shared-secret wrapper around the two mutating    *)
(* routes, a SQLite table entries(id, tag UNIQUE, url) and an ini file.    *)
(*                                                                         *)
(* Go strings are modelled as sequences of one-character (or one-chunk)    *)
(* strings, so that strings.Split / strings.Join / TrimSpace and string    *)
(* concatenation are computed, not assumed: "" is <<>>, "a:b" is           *)
(* <<"a", ":", "b">>.  Enumerations of the model itself (paths, methods,   *)
(* program counters, function names) are plain TLA+ strings.               *)
(*                                                                         *)
(* The database engine and the SMTP relay are outside the repository: the  *)
(* table is modelled by the statements main.go issues against the schema   *)
(* it creates (a reliable store), the relay by a send that succeeds or     *)
(* fails.                                                                  *)
(***************************************************************************)
EXTENDS Naturals, Sequences, FiniteSets

VARIABLES
    mainpc,     \* where main() is: "main", "initDB", "handleFunc", "listen", "select", "exit1"
    cfgFile,    \* config.ini as found on disk: [readable, kv]
    cfg,        \* the global cfg: the key/value pairs loaded from config.ini
    db,         \* the global db handle: "nil" or "open"
    table,      \* whether table entries exists in the database file
    entries,    \* the rows of table entries, in insertion order
    routes,     \* the DefaultServeMux: path -> chain of functions registered for it
    listener,   \* per listener: "off", "starting", "bound"
    conn,       \* the requests accepted so far, in order of arrival
    chain,      \* per request: the functions still to be called for it
    calls,      \* per request: the functions and store/relay calls made for it so far
    resp,       \* per request: what was written to its ResponseWriter
    outbox      \* the messages handed to the SMTP relay, in order

vars == <<mainpc, cfgFile, cfg, db, table, entries, routes, listener,
          conn, chain, calls, resp, outbox>>

----------------------------------------------------------------------------
(* Bounds of the model *)

\* requests accepted in one run of the general specification
MaxReq == 2
\* parallel callers in the same-tag race
MaxRace == 3
\* required keys that may be absent from config.ini at once
MaxMissing == 1
\* requests accepted in one run of the start-up specification
MaxBootReq == 1
\* length of a caller's remote address, in characters
MaxAddrLen == 4
\* requests accepted in one run of the save-twice specification
MaxDup == 3
\* requests accepted in one run of the two-tags specification
MaxPair == 4

----------------------------------------------------------------------------
(* Strings *)

RECURSIVE SplitFrom(_, _, _)
\* the pieces of s between occurrences of sep, cur being the piece under way
SplitFrom(s, sep, cur) ==
    IF s = <<>> THEN <<cur>>
    ELSE IF Head(s) = sep THEN <<cur>> \o SplitFrom(Tail(s), sep, <<>>)
    ELSE SplitFrom(Tail(s), sep, Append(cur, Head(s)))

\* strings.Split(s, sep) for a one-character sep
Split(s, sep) == SplitFrom(s, sep, <<>>)

RECURSIVE Join(_, _)
\* strings.Join(parts, sep)
Join(parts, sep) ==
    IF parts = <<>> THEN <<>>
    ELSE IF Len(parts) = 1 THEN parts[1]
    ELSE parts[1] \o <<sep>> \o Join(Tail(parts), sep)

RECURSIVE TrimLeft(_)
TrimLeft(s) == IF s # <<>> /\ Head(s) = " " THEN TrimLeft(Tail(s)) ELSE s

RECURSIVE TrimRight(_)
TrimRight(s) ==
    IF s # <<>> /\ s[Len(s)] = " " THEN TrimRight(SubSeq(s, 1, Len(s) - 1)) ELSE s

\* strings.TrimSpace(s)
TrimSpace(s) == TrimRight(TrimLeft(s))

----------------------------------------------------------------------------
(* Configuration *)

smtpKeys == <<"server", "port", "username", "password", "sendto">>

generalKeys ==
    <<"database", "secret", "authheader", "sslport", "httpport",
      "sslcert", "sslkey", "httpenabled", "sslenabled">>

Range(s) == {s[i] : i \in DOMAIN s}

AllKeys ==
    {<<"smtp", k>> : k \in Range(smtpKeys)} \cup {<<"general", k>> : k \in Range(generalKeys)}

\* the value of every key of a complete config.ini, but for the two flags
FullValue(sk) ==
    CASE sk = <<"smtp", "sendto">> -> <<"a", ",", " ", "b">>
      [] sk = <<"general", "secret">> -> <<"s3cret">>
      [] sk = <<"general", "authheader">> -> <<"X-Auth">>
      [] OTHER -> <<sk[2]>>

\* a readable config.ini with the two flags as given and the keys of blank absent or empty
ConfigFile(http, ssl, blank) ==
    [readable |-> TRUE,
     kv |-> [sk \in AllKeys |->
                IF sk \in blank THEN <<>>
                ELSE IF sk = <<"general", "httpenabled">> THEN http
                ELSE IF sk = <<"general", "sslenabled">> THEN ssl
                ELSE FullValue(sk)]]

\* a config.ini that ini.Load cannot read
Unreadable == [readable |-> FALSE, kv |-> [sk \in AllKeys |-> <<>>]]

FlagValues == {<<"true">>, <<"false">>, <<"1">>}

\* cfg.Section(section).Key(key).String(): "" for a key that is absent
KeyString(section, key) == cfg[<<section, key>>]

\* checkConfig over kv, the keys from position i on
RECURSIVE checkKeysFrom(_, _, _, _)
checkKeysFrom(kv, section, keys, i) ==
    IF i > Len(keys) THEN TRUE
    ELSE IF kv[<<section, keys[i]>>] = <<>> THEN FALSE
    ELSE checkKeysFrom(kv, section, keys, i + 1)

\* checkConfig stopping one key short of the end of keys
checkConfigSkipLast(kv, section, keys) ==
    checkKeysFrom(kv, section, SubSeq(keys, 1, Len(keys) - 1), 1)

\* checkConfig(section, keys)
checkConfig(kv, section, keys) == checkKeysFrom(kv, section, keys, 1)

\* parseConfig's result on file f
parseConfig(f) ==
    IF ~f.readable THEN FALSE
    ELSE IF ~checkConfig(f.kv, "smtp", smtpKeys) THEN FALSE
    ELSE IF ~checkConfig(f.kv, "general", generalKeys) THEN FALSE
    ELSE TRUE

----------------------------------------------------------------------------
(* The table entries *)

\* the INSERT against a schema whose tag column is not UNIQUE
DbInsertNoUnique(rows, tag, url) ==
    [err |-> <<>>,
     rows |-> Append(rows, [id |-> Len(rows) + 1, tag |-> tag, url |-> url])]

\* INSERT OR REPLACE: a row of the same tag is dropped and the new one added
DbInsertReplace(rows, tag, url) ==
    LET keep == SelectSeq(rows, LAMBDA row : row.tag # tag)
    IN  [err |-> <<>>,
         rows |-> Append(keep, [id |-> Len(rows) + 1, tag |-> tag, url |-> url])]

\* INSERT INTO entries (tag, url) VALUES (?, ?) under the schema's tag TEXT UNIQUE
DbInsert(rows, tag, url) ==
    IF \E i \in DOMAIN rows : rows[i].tag = tag
    THEN [err |-> <<"UNIQUE constraint failed: entries.tag">>, rows |-> rows]
    ELSE [err |-> <<>>,
          rows |-> Append(rows, [id |-> Len(rows) + 1, tag |-> tag, url |-> url])]

\* the SELECT without its WHERE clause: the first row of the table
DbQueryRowAny(rows, tag) ==
    IF rows = <<>> THEN [err |-> "ErrNoRows", url |-> <<>>]
    ELSE [err |-> "nil", url |-> rows[1].url]

\* SELECT url FROM entries WHERE tag = ?, QueryRow(...).Scan(&url): the first row
DbQueryRow(rows, tag) ==
    LET hits == {i \in DOMAIN rows : rows[i].tag = tag}
    IN  IF hits = {} THEN [err |-> "ErrNoRows", url |-> <<>>]
        ELSE [err |-> "nil",
              url |-> rows[CHOOSE i \in hits : \A j \in hits : i <= j].url]

----------------------------------------------------------------------------
(* Requests *)

\* r.Header.Get(name): the first value sent under name, "" when there is none
HeaderGet(header, name) ==
    LET hits == {i \in DOMAIN header : header[i][1] = name}
    IN  IF hits = {} THEN <<>>
        ELSE header[CHOOSE i \in hits : \A j \in hits : i <= j][2]

\* r.URL.Query().Get("tag"): the first tag parameter, "" when there is none
QueryGet(query) == IF query = <<>> THEN <<>> ELSE query[1]

\* the value json.Decoder.Decode stores in a string field, fields being the
\* <<name, JSON type, text>> members of the object sent: an absent member and a
\* null leave the field "", a member of another type is an error
DecodeString(fields, name) ==
    LET hits == {f \in fields : f[1] = name}
    IN  IF hits = {} THEN [err |-> FALSE, val |-> <<>>]
        ELSE LET m == CHOOSE h \in hits : TRUE
             IN  IF m[2] = "string" THEN [err |-> FALSE, val |-> m[3]]
                 ELSE IF m[2] = "null" THEN [err |-> FALSE, val |-> <<>>]
                 ELSE [err |-> TRUE, val |-> <<>>]

\* json.NewDecoder(r.Body).Decode(&params) for a struct of the two string fields a and b
Decode(body, a, b) ==
    LET x == DecodeString(body.fields, a)
        y == DecodeString(body.fields, b)
    IN  IF ~body.json
        THEN [err |-> <<"invalid character">>, a |-> <<>>, b |-> <<>>]
        ELSE IF x.err \/ y.err
        THEN [err |-> <<"json: cannot unmarshal">>, a |-> <<>>, b |-> <<>>]
        ELSE [err |-> <<>>, a |-> x.val, b |-> y.val]

\* http.Error(w, text, status)
Error(text, status) == [status |-> status, text |-> text, location |-> <<>>]

\* fmt.Fprint(w, text) on a fresh ResponseWriter: status 200
Fprint(text) == [status |-> 200, text |-> text, location |-> <<>>]

\* http.Redirect(w, r, url, status): the url handed over, as stored (what net/http
\* makes of a relative url in the Location header is outside the repository)
Redirect(url, status) == [status |-> status, text |-> <<>>, location |-> url]

----------------------------------------------------------------------------
(* Handlers: what each writes and what it does to the store and the relay *)

\* ipHandler keeping only the text before the first ":"
ipHandlerFirstColon(q) ==
    LET sAddr == Split(q.addr, ":")
    IN  [writes |-> <<Fprint(sAddr[1])>>, calls |-> <<"ipHandler">>]

\* ipHandler: the remote address up to its last ":"
ipHandler(q) ==
    LET sAddr == Split(q.addr, ":")
        addr == Join(SubSeq(sAddr, 1, Len(sAddr) - 1), ":")
    IN  [writes |-> <<Fprint(addr)>>, calls |-> <<"ipHandler">>]

\* authWrapper without the comparison with secret: any non-empty header passes
authWrapperNonEmpty(q) ==
    LET auth == HeaderGet(q.header, KeyString("general", "authheader"))
    IN  IF auth = <<>>
        THEN [writes |-> <<Error(<<"unauthorized">>, 401)>>, next |-> FALSE]
        ELSE [writes |-> <<>>, next |-> TRUE]

\* the closure authWrapper returns: 401 and no call of next unless the header
\* named by authheader is non-empty and equal to secret
authWrapper(q) ==
    LET auth == HeaderGet(q.header, KeyString("general", "authheader"))
    IN  IF auth = <<>>
        THEN [writes |-> <<Error(<<"unauthorized">>, 401)>>, next |-> FALSE]
        ELSE IF auth # KeyString("general", "secret")
        THEN [writes |-> <<Error(<<"unauthorized">>, 401)>>, next |-> FALSE]
        ELSE [writes |-> <<>>, next |-> TRUE]

\* saveHandler dropping the error of db.Exec
saveHandlerIgnoreErr(q, rows) ==
    LET params == Decode(q.body, "tag", "url")
        ins == DbInsert(rows, params.a, params.b)
    IN  IF q.method # "POST"
        THEN [writes |-> <<Error(<<"Invalid request method">>, 405)>>,
              rows |-> rows, calls |-> <<"saveHandler">>]
        ELSE IF params.err # <<>>
        THEN [writes |-> <<Error(<<"Invalid request body: ">> \o params.err, 400)>>,
              rows |-> rows, calls |-> <<"saveHandler">>]
        ELSE [writes |-> <<Fprint(<<"success">>)>>,
              rows |-> ins.rows, calls |-> <<"saveHandler", "db.Exec">>]

\* saveHandler decoding the body before it looks at the method
saveHandlerBodyFirst(q, rows) ==
    LET params == Decode(q.body, "tag", "url")
        ins == DbInsert(rows, params.a, params.b)
    IN  IF params.err # <<>>
        THEN [writes |-> <<Error(<<"Invalid request body: ">> \o params.err, 400)>>,
              rows |-> rows, calls |-> <<"saveHandler">>]
        ELSE IF q.method # "POST"
        THEN [writes |-> <<Error(<<"Invalid request method">>, 405)>>,
              rows |-> rows, calls |-> <<"saveHandler">>]
        ELSE IF ins.err # <<>>
        THEN [writes |-> <<Error(<<"Failed to save data: ">> \o ins.err, 500)>>,
              rows |-> ins.rows, calls |-> <<"saveHandler", "db.Exec">>]
        ELSE [writes |-> <<Fprint(<<"success">>)>>,
              rows |-> ins.rows, calls |-> <<"saveHandler", "db.Exec">>]

\* saveHandler on the rows of entries
saveHandler(q, rows) ==
    LET params == Decode(q.body, "tag", "url")
        ins == DbInsert(rows, params.a, params.b)
    IN  IF q.method # "POST"
        THEN [writes |-> <<Error(<<"Invalid request method">>, 405)>>,
              rows |-> rows, calls |-> <<"saveHandler">>]
        ELSE IF params.err # <<>>
        THEN [writes |-> <<Error(<<"Invalid request body: ">> \o params.err, 400)>>,
              rows |-> rows, calls |-> <<"saveHandler">>]
        ELSE IF ins.err # <<>>
        THEN [writes |-> <<Error(<<"Failed to save data: ">> \o ins.err, 500)>>,
              rows |-> ins.rows, calls |-> <<"saveHandler", "db.Exec">>]
        ELSE [writes |-> <<Fprint(<<"success">>)>>,
              rows |-> ins.rows, calls |-> <<"saveHandler", "db.Exec">>]

\* retrieveHandler without the test for an empty tag
retrieveHandlerNoCheck(q, rows) ==
    LET row == DbQueryRow(rows, QueryGet(q.query))
    IN  IF row.err = "ErrNoRows"
        THEN [writes |-> <<Error(<<"No URL found for the given tag">>, 404)>>,
              calls |-> <<"retrieveHandler", "db.QueryRow">>]
        ELSE [writes |-> <<Redirect(row.url, 302)>>,
              calls |-> <<"retrieveHandler", "db.QueryRow">>]

\* retrieveHandler on the rows of entries
retrieveHandler(q, rows) ==
    LET tag == QueryGet(q.query)
        row == DbQueryRow(rows, tag)
    IN  IF tag = <<>>
        THEN [writes |-> <<Error(<<"Tag is required">>, 400)>>,
              calls |-> <<"retrieveHandler">>]
        ELSE IF row.err = "ErrNoRows"
        THEN [writes |-> <<Error(<<"No URL found for the given tag">>, 404)>>,
              calls |-> <<"retrieveHandler", "db.QueryRow">>]
        ELSE [writes |-> <<Redirect(row.url, 302)>>,
              calls |-> <<"retrieveHandler", "db.QueryRow">>]

\* the recipients notifyHandler builds from sendto
Recipients(sendto) ==
    LET parts == Split(sendto, ",")
    IN  [i \in DOMAIN parts |-> TrimSpace(parts[i])]

\* notifyHandler, sent being whether smtp.SendMail returns nil; mail is <<>> or
\* the one message handed to the relay
notifyHandler(q, sent) ==
    LET params == Decode(q.body, "level", "body")
        msg == [addr |-> KeyString("smtp", "server") \o <<":">> \o KeyString("smtp", "port"),
                from |-> KeyString("smtp", "username"),
                to |-> Recipients(KeyString("smtp", "sendto")),
                msg |-> params.a \o <<"\r\n\r\n">> \o params.b]
    IN  IF q.method # "POST"
        THEN [writes |-> <<Error(<<"Invalid request method">>, 405)>>,
              mail |-> <<>>, calls |-> <<"notifyHandler">>]
        ELSE IF params.err # <<>>
        THEN [writes |-> <<Error(<<"Invalid request body: ">> \o params.err, 400)>>,
              mail |-> <<>>, calls |-> <<"notifyHandler">>]
        ELSE IF params.a = <<>> \/ params.b = <<>>
        THEN [writes |-> <<Error(<<"Invalid request body">>, 400)>>,
              mail |-> <<>>, calls |-> <<"notifyHandler">>]
        ELSE IF ~sent
        THEN [writes |-> <<Error(<<"RequestFailed: ", "smtp error">>, 500)>>,
              mail |-> <<>>, calls |-> <<"notifyHandler", "smtp.SendMail">>]
        ELSE [writes |-> <<Fprint(<<"success">>)>>,
              mail |-> <<msg>>, calls |-> <<"notifyHandler", "smtp.SendMail">>]

\* the four http.HandleFunc registrations of main
Routes ==
    [p \in {"/ip", "/notify", "/puturl", "/geturl"} |->
        CASE p = "/ip" -> <<"ipHandler">>
          [] p = "/notify" -> <<"authWrapper", "notifyHandler">>
          [] p = "/puturl" -> <<"authWrapper", "saveHandler">>
          [] p = "/geturl" -> <<"retrieveHandler">>]

----------------------------------------------------------------------------
(* main() *)

\* main calls parseConfig and exits with code 1 when it returns false
ParseConfig ==
    /\ mainpc = "main"
    /\ cfg' = IF cfgFile.readable THEN cfgFile.kv ELSE cfg
    /\ mainpc' = IF parseConfig(cfgFile) THEN "initDB" ELSE "exit1"
    /\ UNCHANGED <<cfgFile, db, table, entries, routes, listener,
                   conn, chain, calls, resp, outbox>>

\* initDB: open the handle, CREATE TABLE IF NOT EXISTS entries
InitDB ==
    /\ mainpc = "initDB"
    /\ db' = "open"
    /\ table' = TRUE
    /\ mainpc' = "handleFunc"
    /\ UNCHANGED <<cfgFile, cfg, entries, routes, listener,
                   conn, chain, calls, resp, outbox>>

\* the four http.HandleFunc calls
HandleFunc ==
    /\ mainpc = "handleFunc"
    /\ routes' = Routes
    /\ mainpc' = "listen"
    /\ UNCHANGED <<cfgFile, cfg, db, table, entries, listener,
                   conn, chain, calls, resp, outbox>>

\* main starts a goroutine for each listener whose flag is literally "true",
\* then blocks in select {}
StartListeners ==
    /\ mainpc = "listen"
    /\ listener' =
         [http |-> IF KeyString("general", "httpenabled") = <<"true">>
                   THEN "starting" ELSE "off",
          ssl |-> IF KeyString("general", "sslenabled") = <<"true">>
                  THEN "starting" ELSE "off"]
    /\ mainpc' = "select"
    /\ UNCHANGED <<cfgFile, cfg, db, table, entries, routes,
                   conn, chain, calls, resp, outbox>>

\* a listener goroutine: ListenAndServe / ListenAndServeTLS binds and serves,
\* or returns an error and the goroutine ends the process with os.Exit(1)
ListenAndServe(l) ==
    /\ mainpc = "select"
    /\ listener[l] = "starting"
    /\ \E bound \in BOOLEAN :
         IF bound
         THEN /\ listener' = [listener EXCEPT ![l] = "bound"]
              /\ mainpc' = mainpc
         ELSE /\ listener' = [http |-> "off", ssl |-> "off"]
              /\ mainpc' = "exit1"
    /\ UNCHANGED <<cfgFile, cfg, db, table, entries, routes,
                   conn, chain, calls, resp, outbox>>

----------------------------------------------------------------------------
(* Serving *)

\* the function to be called next for request r, "" when the request is over
Pending(r) == IF r \notin DOMAIN chain \/ chain[r] = <<>> THEN "" ELSE Head(chain[r])

\* a bound listener accepts a request of reqs, at most max in a run, and the
\* mux picks the chain registered for its path
Arrive(reqs, max) ==
    /\ mainpc = "select"
    /\ Len(conn) < max
    /\ \E l \in DOMAIN listener, q \in reqs :
         /\ listener[l] = "bound"
         /\ q.path \in DOMAIN routes
         /\ conn' = Append(conn, [path |-> q.path, method |-> q.method,
                                  header |-> q.header, query |-> q.query,
                                  body |-> q.body, addr |-> q.addr, via |-> l])
         /\ chain' = Append(chain, routes[q.path])
    /\ calls' = Append(calls, <<>>)
    /\ resp' = Append(resp, <<>>)
    /\ UNCHANGED <<mainpc, cfgFile, cfg, db, table, entries, routes, listener, outbox>>

AuthWrapper(r) ==
    /\ mainpc = "select"
    /\ Pending(r) = "authWrapper"
    /\ LET a == authWrapper(conn[r])
       IN  /\ resp' = [resp EXCEPT ![r] = @ \o a.writes]
           /\ chain' = [chain EXCEPT ![r] = IF a.next THEN Tail(@) ELSE <<>>]
    /\ calls' = [calls EXCEPT ![r] = Append(@, "authWrapper")]
    /\ UNCHANGED <<mainpc, cfgFile, cfg, db, table, entries, routes, listener,
                   conn, outbox>>

IpHandler(r) ==
    /\ mainpc = "select"
    /\ Pending(r) = "ipHandler"
    /\ LET h == ipHandler(conn[r])
       IN  /\ resp' = [resp EXCEPT ![r] = @ \o h.writes]
           /\ calls' = [calls EXCEPT ![r] = @ \o h.calls]
    /\ chain' = [chain EXCEPT ![r] = Tail(@)]
    /\ UNCHANGED <<mainpc, cfgFile, cfg, db, table, entries, routes, listener,
                   conn, outbox>>

SaveHandler(r) ==
    /\ mainpc = "select"
    /\ Pending(r) = "saveHandler"
    /\ LET h == saveHandler(conn[r], entries)
       IN  /\ resp' = [resp EXCEPT ![r] = @ \o h.writes]
           /\ calls' = [calls EXCEPT ![r] = @ \o h.calls]
           /\ entries' = h.rows
    /\ chain' = [chain EXCEPT ![r] = Tail(@)]
    /\ UNCHANGED <<mainpc, cfgFile, cfg, db, table, routes, listener, conn, outbox>>

RetrieveHandler(r) ==
    /\ mainpc = "select"
    /\ Pending(r) = "retrieveHandler"
    /\ LET h == retrieveHandler(conn[r], entries)
       IN  /\ resp' = [resp EXCEPT ![r] = @ \o h.writes]
           /\ calls' = [calls EXCEPT ![r] = @ \o h.calls]
    /\ chain' = [chain EXCEPT ![r] = Tail(@)]
    /\ UNCHANGED <<mainpc, cfgFile, cfg, db, table, entries, routes, listener,
                   conn, outbox>>

NotifyHandler(r) ==
    /\ mainpc = "select"
    /\ Pending(r) = "notifyHandler"
    /\ \E sent \in BOOLEAN :
         LET h == notifyHandler(conn[r], sent)
         IN  /\ resp' = [resp EXCEPT ![r] = @ \o h.writes]
             /\ calls' = [calls EXCEPT ![r] = @ \o h.calls]
             /\ outbox' = outbox \o h.mail
    /\ chain' = [chain EXCEPT ![r] = Tail(@)]
    /\ UNCHANGED <<mainpc, cfgFile, cfg, db, table, entries, routes, listener, conn>>

----------------------------------------------------------------------------
(* Inputs *)

Req(path, method, header, query, body, addr) ==
    [path |-> path, method |-> method, header |-> header, query |-> query,
     body |-> body, addr |-> addr]

AuthName == FullValue(<<"general", "authheader">>)
Secret == FullValue(<<"general", "secret">>)

\* the credential headers a caller may send: none, an empty one, a value that
\* only starts with the secret, the secret under another name, the secret
NoHeader == <<>>
EmptyHeader == << <<AuthName, <<>>>> >>
WrongHeader == << <<AuthName, Secret \o <<"x">>>> >>
OtherHeader == << <<<<"Authorization">>, Secret>> >>
GoodHeader == << <<AuthName, Secret>> >>
BadHeaders == {NoHeader, EmptyHeader, WrongHeader, OtherHeader}

\* request bodies: not JSON at all, or a JSON object with the given members
NotJSON == [json |-> FALSE, fields |-> {}]
Object(fields) == [json |-> TRUE, fields |-> fields]
Str(name, val) == <<name, "string", val>>

TagA == <<"a">>
TagB == <<"b">>
Url1 == <<"u1">>
Url2 == <<"u2">>
Addr4 == <<"1", ".", "2", ":", "8">>
Addr6 == <<"[", ":", ":", "1", "]", ":", "8">>

TagUrl(tag, url) == Object({Str("tag", tag), Str("url", url)})
LevelBody(level, body) == Object({Str("level", level), Str("body", body)})

IpRequests == {Req("/ip", "GET", NoHeader, <<>>, NotJSON, a) : a \in {Addr4, Addr6}}

GetRequests ==
    {Req("/geturl", "GET", NoHeader, qu, NotJSON, Addr4) :
        qu \in {<<>>, << <<>> >>, <<TagA>>, <<TagB>>}}

PutBodies ==
    {NotJSON, Object({}), Object({Str("url", Url1)}), Object({Str("tag", TagA)}),
     Object({<<"tag", "number", <<"5">>>>, Str("url", Url1)}),
     TagUrl(<<>>, Url1), TagUrl(TagA, Url1), TagUrl(TagA, Url2), TagUrl(TagB, Url1)}

PutRequests ==
    {Req("/puturl", "POST", h, <<>>, TagUrl(TagA, Url1), Addr4) : h \in BadHeaders}
    \cup {Req("/puturl", "GET", h, <<>>, NotJSON, Addr4) : h \in BadHeaders}
    \cup {Req("/puturl", "GET", GoodHeader, <<>>, b, Addr4) : b \in {NotJSON, TagUrl(TagA, Url1)}}
    \cup {Req("/puturl", "POST", GoodHeader, <<>>, b, Addr4) : b \in PutBodies}

NotifyBodies ==
    {NotJSON, Object({Str("level", <<"info">>)}), Object({Str("body", <<"hi">>)}),
     LevelBody(<<>>, <<"hi">>), LevelBody(<<"info">>, <<"hi">>)}

NotifyRequests ==
    {Req("/notify", "POST", h, <<>>, LevelBody(<<"info">>, <<"hi">>), Addr4) : h \in BadHeaders}
    \cup {Req("/notify", "GET", GoodHeader, <<>>, b, Addr4) :
            b \in {NotJSON, LevelBody(<<"info">>, <<"hi">>)}}
    \cup {Req("/notify", "POST", GoodHeader, <<>>, b, Addr4) : b \in NotifyBodies}

\* the requests of the general specification
Requests == IpRequests \cup GetRequests \cup PutRequests \cup NotifyRequests

\* the same-tag race: authorized, well-formed saves of one tag
RaceRequests ==
    {Req("/puturl", "POST", GoodHeader, <<>>, TagUrl(TagA, u), Addr4) : u \in {Url1, Url2}}

\* authorized, well-formed saves under the empty tag and under one other tag,
\* and lookups of both
DupRequests ==
    {Req("/puturl", "POST", GoodHeader, <<>>, TagUrl(t, u), Addr4) :
        t \in {<<>>, TagA}, u \in {Url1, Url2}}
    \cup {Req("/geturl", "GET", NoHeader, <<t>>, NotJSON, Addr4) : t \in {<<>>, TagA}}

\* authorized, well-formed saves under three tags, one of them empty, each tag
\* saved by one request at most, and lookups of the three
PairRequests ==
    {Req("/puturl", "POST", GoodHeader, <<>>, b, Addr4) :
        b \in {TagUrl(<<>>, Url1), TagUrl(TagA, Url1), TagUrl(TagB, Url2)}
               \ {conn[r].body : r \in DOMAIN conn}}
    \cup {Req("/geturl", "GET", NoHeader, <<t>>, NotJSON, Addr4) : t \in {<<>>, TagA, TagB}}

\* one request of each kind, for the start-up specification
BootRequests ==
    {Req("/ip", "GET", NoHeader, <<>>, NotJSON, Addr4),
     Req("/geturl", "GET", NoHeader, <<TagA>>, NotJSON, Addr4),
     Req("/puturl", "POST", GoodHeader, <<>>, TagUrl(TagA, Url1), Addr4),
     Req("/puturl", "POST", NoHeader, <<>>, TagUrl(TagA, Url1), Addr4),
     Req("/notify", "POST", GoodHeader, <<>>, LevelBody(<<"info">>, <<"hi">>), Addr4)}

\* every remote address of at most MaxAddrLen characters over a small alphabet
AddrChars == {"1", ".", ":", "]"}
Addrs == UNION {[1..n -> AddrChars] : n \in 0..MaxAddrLen}
AddrRequests ==
    {Req("/ip", "GET", NoHeader, <<>>, NotJSON, a) : a \in Addrs \cup {Addr4, Addr6}}

\* a complete config.ini serving plain HTTP only
HttpOnly == ConfigFile(<<"true">>, <<"false">>, {})
\* a complete config.ini serving both listeners
BothListeners == ConfigFile(<<"true">>, <<"true">>, {})
\* unreadable, or readable with any flag values and at most MaxMissing required keys absent
BootConfigs ==
    {Unreadable} \cup
    {ConfigFile(h, s, blank) :
        h \in FlagValues, s \in FlagValues,
        blank \in {b \in SUBSET AllKeys : Cardinality(b) <= MaxMissing}}

----------------------------------------------------------------------------
(* Specifications *)

\* the process starts with config.ini one of files and an empty database
InitWith(files) ==
    /\ mainpc = "main"
    /\ cfgFile \in files
    /\ cfg = [sk \in {} |-> <<>>]
    /\ db = "nil"
    /\ table = FALSE
    /\ entries = <<>>
    /\ routes = [p \in {} |-> <<>>]
    /\ listener = [http |-> "off", ssl |-> "off"]
    /\ conn = <<>>
    /\ chain = <<>>
    /\ calls = <<>>
    /\ resp = <<>>
    /\ outbox = <<>>

Main == ParseConfig \/ InitDB \/ HandleFunc \/ StartListeners
           \/ \E l \in {"http", "ssl"} : ListenAndServe(l)

\* the handlers of the requests accepted, at most max of them
Serve(max) ==
    \E r \in 1..max :
        AuthWrapper(r) \/ IpHandler(r) \/ NotifyHandler(r) \/ SaveHandler(r)
            \/ RetrieveHandler(r)

Init == InitWith({HttpOnly})
Next == Main \/ Arrive(Requests, MaxReq) \/ Serve(MaxReq)
Spec == Init /\ [][Next]_vars

InitRace == InitWith({BothListeners})
NextRace ==
    Main \/ Arrive(RaceRequests, MaxRace)
         \/ \E r \in 1..MaxRace : AuthWrapper(r) \/ SaveHandler(r)
SpecRace == InitRace /\ [][NextRace]_vars

InitDup == InitWith({HttpOnly})
NextDup ==
    Main \/ Arrive(DupRequests, MaxDup)
         \/ \E r \in 1..MaxDup : AuthWrapper(r) \/ SaveHandler(r) \/ RetrieveHandler(r)
SpecDup == InitDup /\ [][NextDup]_vars

InitPair == InitWith({HttpOnly})
NextPair ==
    Main \/ Arrive(PairRequests, MaxPair)
         \/ \E r \in 1..MaxPair : AuthWrapper(r) \/ SaveHandler(r) \/ RetrieveHandler(r)
SpecPair == InitPair /\ [][NextPair]_vars

InitBoot == InitWith(BootConfigs)
NextBoot == Main \/ Arrive(BootRequests, MaxBootReq) \/ Serve(MaxBootReq)
SpecBoot == InitBoot /\ [][NextBoot]_vars

InitIp == InitWith({HttpOnly})
NextIp == Main \/ Arrive(AddrRequests, 1) \/ \E r \in 1..1 : IpHandler(r)
SpecIp == InitIp /\ [][NextIp]_vars

----------------------------------------------------------------------------
(* Vocabulary of the properties *)

\* the secret and the header name config.ini sets
ConfiguredSecret == cfgFile.kv[<<"general", "secret">>]
ConfiguredHeader == cfgFile.kv[<<"general", "authheader">>]

\* what request q presents under the configured header: "" when it sends none
Presented(q) == HeaderGet(q.header, ConfiguredHeader)
Gated(q) == q.path \in {"/puturl", "/notify"}
Authorized(q) == Presented(q) = ConfiguredSecret
Handlers == {"saveHandler", "notifyHandler"}

\* request r has been answered
Done(r) == r \in DOMAIN conn /\ chain[r] = <<>>
\* function or call f was made for request r
Ran(r, f) == \E i \in DOMAIN calls[r] : calls[r][i] = f
\* in this step, function f runs for request r
Runs(r, f) == r \in DOMAIN chain /\ Pending(r) = f /\ chain'[r] # chain[r]

AllTags == {<<>>, TagA, TagB}
AllUrls == {Url1, Url2}

\* q is an authorized POST /puturl carrying {"tag": t, "url": u}
IsSave(q, t, u) ==
    /\ q.path = "/puturl"
    /\ q.method = "POST"
    /\ q.body = TagUrl(t, u)
    /\ Authorized(q)

\* q is a /geturl?tag=t
IsGet(q, t) == q.path = "/geturl" /\ q.query = <<t>>

Success == <<Fprint(<<"success">>)>>
Unauthorized401 == <<Error(<<"unauthorized">>, 401)>>
DuplicateTag500 ==
    <<Error(<<"Failed to save data: ", "UNIQUE constraint failed: entries.tag">>, 500)>>
NotFound404 == <<Error(<<"No URL found for the given tag">>, 404)>>
TagRequired400 == <<Error(<<"Tag is required">>, 400)>>

\* request r saved (t, u): it was answered "success"
Saved(r, t, u) == Done(r) /\ resp[r] = Success /\ IsSave(conn[r], t, u)
\* the rows of entries holding tag t
RowsOf(t) == {i \in DOMAIN entries : entries[i].tag = t}
IsPrefix(a, b) == Len(a) <= Len(b) /\ SubSeq(b, 1, Len(a)) = a

----------------------------------------------------------------------------
(* C1: a /puturl or /notify request whose credential header is absent,    *)
(* empty or not equal to the configured secret is answered 401 and its    *)
(* handler never runs: no function but authWrapper is called for it, and  *)
(* the step taken for it changes neither the table nor the relay's        *)
(* outbox; a handler runs only after authWrapper, for an equal header.    *)
C1_Refused ==
    \A r \in DOMAIN conn :
        /\ Gated(conn[r]) /\ ~Authorized(conn[r]) =>
              /\ \A i \in DOMAIN calls[r] : calls[r][i] = "authWrapper"
              /\ resp[r] = IF Done(r) THEN Unauthorized401 ELSE <<>>
        /\ (\E h \in Handlers : Ran(r, h)) =>
              /\ calls[r][1] = "authWrapper"
              /\ Presented(conn[r]) = ConfiguredSecret

C1_NoEffect ==
    \A r \in DOMAIN conn :
        Gated(conn[r]) /\ ~Authorized(conn[r]) /\ chain'[r] # chain[r] =>
            entries' = entries /\ outbox' = outbox

\* C1: a gated request without the configured secret is answered 401, no handler
\* runs for it, and its step changes neither the table nor the outbox
C1_AuthGate == [](C1_Refused) /\ [][C1_NoEffect]_vars

\* a refused /puturl (wrong value) and a refused /notify (no header), both answered
C1_Witness ==
    \E r1, r2 \in DOMAIN conn :
        /\ conn[r1].path = "/puturl" /\ conn[r1].header = WrongHeader
        /\ conn[r2].path = "/notify" /\ conn[r2].header = NoHeader
        /\ resp[r1] = Unauthorized401 /\ resp[r2] = Unauthorized401

----------------------------------------------------------------------------
(* C2: of the authorized, well-formed /puturl requests for one tag, at    *)
(* most one is answered "success" at any time and the table never holds   *)
(* two rows of the tag; once all of them are answered, exactly one got    *)
(* "success", each other one got 500 with the UNIQUE failure, and the     *)
(* table holds exactly one row of the tag.                                *)
Callers(t) == {r \in DOMAIN conn : \E u \in AllUrls : IsSave(conn[r], t, u)}
Winners(t) == {r \in Callers(t) : resp[r] = Success}

\* C2: of N parallel authorized saves of one tag exactly one succeeds, the other
\* N-1 get 500 with the UNIQUE failure, and the table holds one row of the tag
C2_OneWinner ==
    \A t \in AllTags :
        /\ Cardinality(Winners(t)) <= 1
        /\ Cardinality(RowsOf(t)) = Cardinality(Winners(t))
        /\ (Callers(t) # {} /\ \A r \in Callers(t) : Done(r)) =>
              /\ Cardinality(Winners(t)) = 1
              /\ \A r \in Callers(t) \ Winners(t) : resp[r] = DuplicateTag500
              /\ Cardinality(RowsOf(t)) = 1

\* MaxRace callers of one tag over both listeners, all answered, the winner
\* not the first to arrive
C2_Witness ==
    /\ Cardinality(Callers(TagA)) = MaxRace
    /\ \A r \in Callers(TagA) : Done(r)
    /\ \E r1, r2 \in Callers(TagA) : conn[r1].via # conn[r2].via
    /\ resp[1] = DuplicateTag500

----------------------------------------------------------------------------
(* C3: a save of a tag no request has saved succeeds; once a request has  *)
(* saved (t, u1), every further save of t is answered 500 with the UNIQUE *)
(* failure and leaves the table as it is, the table holds one row of t,   *)
(* with u1, and every /geturl?tag=t run from then on redirects to u1.     *)
(* C3_SaveTwice states this for every tag, the empty one included;        *)
(* C3_SaveTwiceNonEmpty states the redirect for non-empty tags only and   *)
(* 400 for the empty one.                                                 *)
C3_Saves ==
    \A r \in DOMAIN conn :
        Runs(r, "saveHandler") =>
            \A t \in AllTags : \A u \in AllUrls :
                IsSave(conn[r], t, u) =>
                    IF \E r1 \in DOMAIN conn : \E u1 \in AllUrls : Saved(r1, t, u1)
                    THEN resp'[r] = DuplicateTag500 /\ entries' = entries
                    ELSE resp'[r] = Success

C3_Kept ==
    \A r1 \in DOMAIN conn : \A t \in AllTags : \A u1 \in AllUrls :
        Saved(r1, t, u1) =>
            Cardinality(RowsOf(t)) = 1 /\ \A i \in RowsOf(t) : entries[i].url = u1

C3_Gets(tags) ==
    \A g \in DOMAIN conn :
        Runs(g, "retrieveHandler") =>
            \A t \in tags : \A r1 \in DOMAIN conn : \A u1 \in AllUrls :
                IsGet(conn[g], t) /\ Saved(r1, t, u1) =>
                    resp'[g] = <<Redirect(u1, 302)>>

C3_EmptyGets ==
    \A g \in DOMAIN conn :
        IsGet(conn[g], <<>>) /\ Runs(g, "retrieveHandler") => resp'[g] = TagRequired400

\* C3 as claimed, for every tag: first save succeeds, second gets 500, the table
\* keeps the first URL and a later /geturl of the tag redirects to it
C3_SaveTwice == [](C3_Kept) /\ [][C3_Saves /\ C3_Gets(AllTags)]_vars

\* C3 amended: the same, the redirect for non-empty tags only; a /geturl of the
\* empty tag is answered 400 although the empty tag was saved
C3_SaveTwiceNonEmpty ==
    [](C3_Kept) /\ [][C3_Saves /\ C3_Gets(AllTags \ {<<>>}) /\ C3_EmptyGets]_vars

\* tag a saved with u1, a second save of a with u2 refused, a lookup of a redirected to u1
C3_Witness ==
    \E r1, r2, g \in DOMAIN conn :
        /\ Saved(r1, TagA, Url1)
        /\ IsSave(conn[r2], TagA, Url2) /\ resp[r2] = DuplicateTag500
        /\ IsGet(conn[g], TagA) /\ resp[g] = <<Redirect(Url1, 302)>>

----------------------------------------------------------------------------
(* C4: an authorized POST /puturl whose body is not JSON, or is a JSON    *)
(* object without a tag member or without a url member, is answered 400   *)
(* and no INSERT is made for it.                                          *)
LacksMember(body, name) == ~\E f \in body.fields : f[1] = name

\* C4: an authorized POST /puturl with a non-JSON body or a body lacking tag or
\* url is answered 400 and inserts nothing
C4_BadBodyRejected ==
    \A r \in DOMAIN conn :
        LET q == conn[r]
        IN  /\ Done(r) /\ q.path = "/puturl" /\ q.method = "POST" /\ Authorized(q)
            /\ (~q.body.json \/ LacksMember(q.body, "tag") \/ LacksMember(q.body, "url"))
            => resp[r][1].status = 400 /\ ~Ran(r, "db.Exec")

----------------------------------------------------------------------------
(* C5: a save of (t, u) into a table holding no row of t succeeds and     *)
(* adds the row, keeping the rows there; once (t1, u1) and (t2, u2) have  *)
(* been saved for distinct tags, /geturl?tag=t1 redirects (302) to u1.    *)
(* C5_TwoTags states the redirect for every t1, the empty tag included;   *)
(* C5_TwoTagsNonEmpty for non-empty t1 only (t2 may be empty), and 400    *)
(* for a lookup of the empty tag.                                         *)
C5_Saves ==
    \A r \in DOMAIN conn :
        Runs(r, "saveHandler") =>
            \A t \in AllTags : \A u \in AllUrls :
                IsSave(conn[r], t, u) /\ RowsOf(t) = {} =>
                    /\ resp'[r] = Success
                    /\ IsPrefix(entries, entries')
                    /\ \E i \in DOMAIN entries' :
                          entries'[i].tag = t /\ entries'[i].url = u

C5_Gets(tags) ==
    \A g \in DOMAIN conn :
        Runs(g, "retrieveHandler") =>
            \A t1 \in tags :
                IsGet(conn[g], t1) =>
                    \A r1 \in DOMAIN conn \ {g} : \A u1 \in AllUrls :
                        Saved(r1, t1, u1) =>
                            \A r2 \in DOMAIN conn \ {g, r1} :
                                \A t2 \in AllTags \ {t1} : \A u2 \in AllUrls :
                                    Saved(r2, t2, u2) => resp'[g] = <<Redirect(u1, 302)>>

C5_EmptyGet ==
    \A g \in DOMAIN conn :
        Runs(g, "retrieveHandler") /\ IsGet(conn[g], <<>>) =>
            resp'[g] = TagRequired400 /\ ~Ran(g, "db.QueryRow")'

\* C5 as claimed, the empty tag included: after saves of (t1, u1) and (t2, u2),
\* t1 # t2, /geturl of t1 redirects to u1
C5_TwoTags == [][C5_Saves /\ C5_Gets(AllTags)]_vars

\* C5 amended: the same for a non-empty t1; a /geturl of the empty tag is
\* answered 400 without a query
C5_TwoTagsNonEmpty == [][C5_Saves /\ C5_Gets(AllTags \ {<<>>}) /\ C5_EmptyGet]_vars

\* (a, u1) saved, then (b, u2) saved, and a lookup of each redirected to its own URL
C5_Witness ==
    \E r1, r2, g1, g2 \in DOMAIN conn :
        /\ r1 < r2
        /\ Saved(r1, TagA, Url1) /\ Saved(r2, TagB, Url2)
        /\ entries[1].tag = TagA /\ entries[2].tag = TagB
        /\ IsGet(conn[g1], TagA) /\ resp[g1] = <<Redirect(Url1, 302)>>
        /\ IsGet(conn[g2], TagB) /\ resp[g2] = <<Redirect(Url2, 302)>>

----------------------------------------------------------------------------
(* C6: an answered /geturl whose tag parameter is missing or empty got    *)
(* 400 and made no query; one for a non-empty tag that no /puturl         *)
(* answered "success" carried got 404; and one for a non-empty tag got    *)
(* 404 or a 302.                                                          *)
\* request r is a /puturl answered "success" whose body carries tag t
PutOk(r, t) ==
    /\ Done(r) /\ conn[r].path = "/puturl" /\ resp[r] = Success
    /\ Str("tag", t) \in conn[r].body.fields

\* C6: /geturl of a non-empty tag never saved is answered 404, never a redirect;
\* /geturl with a missing or empty tag is answered 400 without querying the table
C6_Lookup ==
    \A g \in DOMAIN conn :
        Done(g) /\ conn[g].path = "/geturl" =>
            /\ conn[g].query \in {<<>>, << <<>> >>} =>
                  resp[g] = TagRequired400 /\ ~Ran(g, "db.QueryRow")
            /\ \A t \in AllTags \ {<<>>} :
                  IsGet(conn[g], t) =>
                      /\ resp[g] = NotFound404 \/ resp[g][1].status = 302
                      /\ (~\E r \in DOMAIN conn : PutOk(r, t)) => resp[g] = NotFound404

\* tag a is saved and a lookup of tag b, which nobody saved, got 404
C6_Witness ==
    \E r, g \in DOMAIN conn :
        Saved(r, TagA, Url1) /\ IsGet(conn[g], TagB) /\ resp[g] = NotFound404

----------------------------------------------------------------------------
(* C7: when config.ini cannot be read, or any of the fourteen required    *)
(* keys is missing or empty, main never gets past parseConfig: it is      *)
(* still to run or the process has exited with code 1, the database is    *)
(* not opened, no route is registered, no listener is started or bound    *)
(* and no request is accepted.                                            *)
RequiredKeys ==
    {<<"smtp", "server">>, <<"smtp", "port">>, <<"smtp", "username">>,
     <<"smtp", "password">>, <<"smtp", "sendto">>,
     <<"general", "database">>, <<"general", "secret">>, <<"general", "authheader">>,
     <<"general", "sslport">>, <<"general", "httpport">>, <<"general", "sslcert">>,
     <<"general", "sslkey">>, <<"general", "httpenabled">>, <<"general", "sslenabled">>}

BadConfig == ~cfgFile.readable \/ \E sk \in RequiredKeys : cfgFile.kv[sk] = <<>>

\* C7: with config.ini unreadable or lacking a required key the process exits
\* with code 1 before opening the database, registering a route or binding a listener
C7_BadConfigExits ==
    BadConfig =>
        /\ mainpc \in {"main", "exit1"}
        /\ db = "nil" /\ ~table
        /\ DOMAIN routes = {}
        /\ \A l \in DOMAIN listener : listener[l] = "off"
        /\ conn = <<>>

\* exited with code 1 on a readable file that lacks only the last key checked
C7_Witness ==
    /\ mainpc = "exit1"
    /\ cfgFile.readable
    /\ \A sk \in RequiredKeys :
          (cfgFile.kv[sk] = <<>>) <=> (sk = <<"general", "sslenabled">>)

----------------------------------------------------------------------------
(* C8: every step keeps the rows of entries as they are and adds at most  *)
(* one row at the end; the step of a /puturl answered "success" adds      *)
(* exactly one, every other step taken for a request adds none.           *)
C8_Step ==
    /\ IsPrefix(entries, entries')
    /\ Len(entries') <= Len(entries) + 1
    /\ \A r \in DOMAIN conn :
          chain'[r] # chain[r] =>
              IF conn[r].path = "/puturl" /\ resp'[r] = Success
              THEN Len(entries') = Len(entries) + 1
              ELSE entries' = entries
    /\ entries' # entries => \E r \in DOMAIN conn : chain'[r] # chain[r]

\* C8: the rows of entries only grow: a successful /puturl adds exactly one row,
\* every other step leaves the table unchanged
C8_AppendOnly == [][C8_Step]_vars

\* one row saved, a second save of its tag refused, the row still there
C8_Witness ==
    \E r1, r2 \in DOMAIN conn :
        /\ Saved(r1, TagA, Url1)
        /\ IsSave(conn[r2], TagA, Url2) /\ resp[r2] = DuplicateTag500
        /\ entries = <<[id |-> 1, tag |-> TagA, url |-> Url1]>>

----------------------------------------------------------------------------
(* C9: for a remote address host ":" port, port holding no ":", /ip       *)
(* answers exactly host, whatever ":" host itself holds.                  *)
\* C9: /ip answers the remote address with exactly its last ":" and the port
\* after it removed, for IPv4 and IPv6 hosts alike
C9_HostOnly ==
    \A r \in DOMAIN conn :
        Done(r) /\ conn[r].path = "/ip" =>
            LET a == conn[r].addr
            IN  \A i \in DOMAIN a :
                    (a[i] = ":" /\ \A j \in (i + 1)..Len(a) : a[j] # ":") =>
                        resp[r] = <<Fprint(SubSeq(a, 1, i - 1))>>

\* an IPv6 caller: the host keeps its own colons
C9_Witness ==
    \E r \in DOMAIN conn :
        conn[r].addr = Addr6 /\ resp[r] = <<Fprint(<<"[", ":", ":", "1", "]">>)>>

----------------------------------------------------------------------------
(* C10: a /puturl or /notify request gets exactly one status; it is 401   *)
(* exactly when the credential is missing or wrong, whatever the method   *)
(* and body; 405 exactly when the credential is right and the method is   *)
(* not POST, whatever the body; and 400 only when the credential is right *)
(* and the method is POST.  authWrapper is the first function called.     *)
\* C10: credential, then method, then body: 401 whatever the method and body,
\* 405 only with the secret, 400 only for an authorized POST, one status each
C10_CheckOrder ==
    \A r \in DOMAIN conn :
        LET q == conn[r]
        IN  /\ Len(resp[r]) <= 1
            /\ Done(r) => Len(resp[r]) = 1
            /\ Done(r) /\ Gated(q) =>
                  /\ calls[r][1] = "authWrapper"
                  /\ (resp[r][1].status = 401) <=> ~Authorized(q)
                  /\ (resp[r][1].status = 405) <=> (Authorized(q) /\ q.method # "POST")
                  /\ (resp[r][1].status = 400) => (Authorized(q) /\ q.method = "POST")

\* a GET without JSON body: 401 without the secret, 405 with it
C10_Witness ==
    \E r1, r2 \in DOMAIN conn :
        /\ conn[r1].path = "/puturl" /\ conn[r1].method = "GET"
        /\ conn[r1].body = NotJSON /\ conn[r1].header = EmptyHeader
        /\ Done(r1) /\ resp[r1][1].status = 401
        /\ conn[r2].path = "/puturl" /\ conn[r2].method = "GET"
        /\ conn[r2].body = NotJSON /\ conn[r2].header = GoodHeader
        /\ Done(r2) /\ resp[r2][1].status = 405

====
